---------------------------- MODULE Spec2Model ----------------------------
(***************************************************************************)
(* A model of maildirwatch.py: the App object (pending queue, debounce     *)
(* timer, directory monitors, live notifications), the GLib main loop that *)
(* dispatches its callbacks one at a time, the maildir scanner, the        *)
(* message hash and the action invoker.                                    *)
(***************************************************************************)
EXTENDS Integers, Sequences, FiniteSets, Bags, TLC

VARIABLES
    queue,          \* App._queue: the pending messages, in arrival order
    notifications,  \* App._notifications: the notifications not yet closed
    monitors,       \* App._monitors: the directory monitors of the session
    timer,          \* App._timer: None or the id of the timeout source
    source,         \* GLib: seconds until the timeout source fires, or NoSource
    watching,       \* Gio: bag of the 'new' directories with a live monitor
    phase,          \* main(): "startup", "running", "quitting", "exited"
    success,        \* main(): the flag behind the exit status
    exitcode,       \* the status of sys.exit, NoExit while the process lives
    batches,        \* the batches handed to _show_notification (file ids)
    shown,          \* ids of the notifications the server displays
    launched,       \* the command lines given to spawn_command_line_async
    arrivals,       \* number of message files read so far (their ids)
    since,          \* seconds since the most recent successful enqueue
    last,           \* the most recent callback and its outcome
    config,         \* the module-level config object, as loaded
    server_caps     \* what Notify.get_server_caps() returns

vars == <<queue, notifications, monitors, timer, source, watching, phase,
          success, exitcode, batches, shown, launched, arrivals, since,
          last, config, server_caps>>

appvars == <<queue, notifications, monitors, timer, source, watching>>

-----------------------------------------------------------------------------
(* Bounds of the model.                                                    *)

MaxArrivals == 3        \* message files delivered in one behaviour
MaxClicks == 1          \* commands launched in one behaviour
Quantum == 30           \* seconds that pass in one step of the clock

(* Program constants.                                                      *)

None == 0               \* self._timer = None
TimerId == 1            \* the id timeout_add_seconds returns (ids are > 0)
Window == 60            \* GLib.timeout_add_seconds(60.0, ...)
NoSource == -1          \* no timeout source attached to the main context
NoExit == -1            \* sys.exit not reached

-----------------------------------------------------------------------------
(* Messages.  A header is <<>> when absent and <<value>> when present; a   *)
(* value is a sequence of characters.  body tells apart two files whose    *)
(* tracked headers coincide.                                               *)

Absent == <<>>
Hdr(v) == <<v>>

Message(date, from, id, subject, to, body) ==
    [Date |-> date, From |-> from, MessageId |-> id, Subject |-> subject,
     To |-> to, body |-> body]

MsgA  == Message(Absent, Hdr(<<"b">>), Absent, Hdr(<<"a">>), Absent, 1)
MsgA2 == Message(Absent, Hdr(<<"b">>), Absent, Hdr(<<"a">>), Absent, 2)
MsgC  == Message(Absent, Hdr(<<"b", "a">>), Absent, Absent, Absent, 3)
MsgD  == Message(Absent, Hdr(<<"d">>), Absent, Hdr(<<"c">>), Absent, 4)

Msgs == {MsgA, MsgA2, MsgC, MsgD}

(* message.get(name, ''): the header's value, '' when it is absent.        *)
Get(message, name) ==
    IF message[name] = Absent THEN <<>> ELSE message[name][1]

(* message[name]: the header's value, Python's None when it is absent.     *)
IsNone(message, name) == message[name] = Absent

(* hash_message: SHA-1 over the five values fed one after the other, which *)
(* is the digest of their concatenation.  The digest is taken to be        *)
(* collision-free: it is represented by the byte string it was fed.        *)
hash_message(message) ==
    Get(message, "Date") \o Get(message, "From") \o Get(message, "MessageId")
        \o Get(message, "Subject") \o Get(message, "To")

-----------------------------------------------------------------------------
(* The filesystem below the configured maildir root.  A path is a sequence *)
(* of entry names; Listing[p] is os.listdir(p) for a directory p, in the   *)
(* order the directory yields its entries.  Junk has a regular file named  *)
(* new.                                                                    *)

Root == <<"M">>

Dirs ==
    { Root,
      <<"M", "Inbox">>, <<"M", "Inbox", "new">>, <<"M", "Inbox", "tmp">>,
      <<"M", "Inbox", "cur">>,
      <<"M", "Inbox", "Sub">>, <<"M", "Inbox", "Sub", "new">>,
      <<"M", "Inbox", "Sub", "tmp">>, <<"M", "Inbox", "Sub", "cur">>,
      <<"M", "Spam">>, <<"M", "Spam", "new">>, <<"M", "Spam", "tmp">>,
      <<"M", "Spam", "cur">>,
      <<"M", "Junk">>, <<"M", "Junk", "tmp">>, <<"M", "Junk", "cur">>,
      <<"M", "notes">> }

Files == { <<"M", "Junk", "new">>, <<"M", "notes", "todo">> }

Listing(p) ==
    CASE p = Root -> <<"Inbox", "Junk", "Spam", "notes">>
      [] p = <<"M", "Inbox">> -> <<"cur", "new", "Sub", "tmp">>
      [] p = <<"M", "Inbox", "Sub">> -> <<"cur", "new", "tmp">>
      [] p = <<"M", "Spam">> -> <<"cur", "new", "tmp">>
      [] p = <<"M", "Junk">> -> <<"cur", "new", "tmp">>
      [] p = <<"M", "notes">> -> <<"todo">>
      [] OTHER -> <<>>

exists(p) == p \in Dirs \cup Files
isdir(p) == p \in Dirs
join(p, name) == Append(p, name)

(* iter_maildirs: the directory itself when new, tmp and cur all exist     *)
(* beneath it, then the maildirs of every entry that is a directory.       *)
RECURSIVE iter_maildirs(_)
RECURSIVE scan_entries(_, _, _)

scan_entries(directory, listing, i) ==
    IF i > Len(listing) THEN <<>>
    ELSE LET subdirpath == join(directory, listing[i])
         IN  (IF isdir(subdirpath) THEN iter_maildirs(subdirpath) ELSE <<>>)
                 \o scan_entries(directory, listing, i + 1)

iter_maildirs(directory) ==
    LET newdir == join(directory, "new")
        tmpdir == join(directory, "tmp")
        curdir == join(directory, "cur")
    IN  (IF exists(newdir) /\ exists(tmpdir) /\ exists(curdir)
            THEN <<directory>> ELSE <<>>)
            \o scan_entries(directory, Listing(directory), 1)

-----------------------------------------------------------------------------
(* fnmatch(name, pat) for patterns made of literal characters, * and ?     *)
(* (the patterns of the model hold no bracket expression).  A path is      *)
(* matched as the string os.path.join builds: "/" before every entry name. *)

Chars(name) ==
    CASE name = "M" -> <<"M">>
      [] name = "Inbox" -> <<"I", "n">>
      [] name = "Sub" -> <<"S", "u">>
      [] name = "Spam" -> <<"S", "p">>
      [] name = "Junk" -> <<"J", "k">>
      [] name = "notes" -> <<"n", "o">>
      [] name = "new" -> <<"n", "e">>
      [] name = "tmp" -> <<"t", "m">>
      [] name = "cur" -> <<"c", "u">>
      [] OTHER -> <<"x">>

RECURSIVE PathString(_)
PathString(p) ==
    IF p = <<>> THEN <<>>
    ELSE PathString(SubSeq(p, 1, Len(p) - 1)) \o <<"/">> \o Chars(p[Len(p)])

RECURSIVE fnmatch(_, _)
fnmatch(name, pat) ==
    IF pat = <<>> THEN name = <<>>
    ELSE IF Head(pat) = "*"
         THEN \/ fnmatch(name, Tail(pat))
              \/ name # <<>> /\ fnmatch(Tail(name), pat)
    ELSE IF name = <<>> THEN FALSE
    ELSE IF Head(pat) = "?" THEN fnmatch(Tail(name), Tail(pat))
    ELSE Head(pat) = Head(name) /\ fnmatch(Tail(name), Tail(pat))

(* str.split(','): the pieces between commas; '' splits into [''].         *)
RECURSIVE split(_)
split(s) ==
    IF \A i \in 1..Len(s) : s[i] # ","
    THEN <<s>>
    ELSE LET i == CHOOSE k \in 1..Len(s) :
                     s[k] = "," /\ \A j \in 1..(k - 1) : s[j] # ","
         IN  <<SubSeq(s, 1, i - 1)>> \o split(SubSeq(s, i + 1, Len(s)))

(* maildir_is_ignored: any pattern of config['global']['ignore'] matches.  *)
maildir_is_ignored(directory) ==
    LET patterns == split(config.ignore)
    IN  \E i \in 1..Len(patterns) :
            fnmatch(PathString(directory), patterns[i])

-----------------------------------------------------------------------------
(* The configurations a behaviour may start from.  The [actions] section   *)
(* is a function from option names to values; configparser stores and      *)
(* looks up option names in lower case.                                    *)

Lower(name) ==
    CASE name = "Show" -> "show"
      [] name = "Default" -> "default"
      [] OTHER -> name

NoActions == [n \in {} |-> ""]

ConfigShow ==
    [ignore  |-> <<"*", "S", "p">>,
     actions |-> [n \in {"default", "show"} |->
                     IF n = "default" THEN "Show" ELSE "emacs -f mu4e"]]

ConfigDefaults ==
    [ignore |-> <<>>, actions |-> NoActions]

ConfigGone ==
    [ignore  |-> <<"*", "S", "u", ",", "/", "M", "/", "?", "k">>,
     actions |-> [n \in {"default", "open"} |->
                     IF n = "default" THEN "Gone" ELSE "xdg-open mail"]]

(* The configurations and notification servers a behaviour may run with.   *)
Environments ==
    { [config |-> ConfigShow,     caps |-> {"body-markup", "actions"}],
      [config |-> ConfigDefaults, caps |-> {}],
      [config |-> ConfigGone,     caps |-> {"actions"}] }

ActionNames == {"default", "Show", "Gone"}

(* config['actions'][name]: the lookup raises KeyError for a missing name. *)
HasAction(name) == Lower(name) \in DOMAIN config.actions
ActionValue(name) == config.actions[Lower(name)]

(* A variant of invoke_action that runs the default entry's own value.     *)
invoke_action_direct(name) ==
    IF ~HasAction(name) THEN [error |-> "KeyError", command |-> ""]
    ELSE [error |-> "", command |-> ActionValue(name)]

(* invoke_action up to the spawn: the command line it resolves, or the     *)
(* KeyError of the lookup that failed.                                     *)
invoke_action(name) ==
    IF name = "default"
    THEN IF ~HasAction("default") THEN [error |-> "KeyError", command |-> ""]
         ELSE LET action == ActionValue("default")
              IN  IF ~HasAction(action)
                  THEN [error |-> "KeyError", command |-> ""]
                  ELSE [error |-> "", command |-> ActionValue(action)]
    ELSE IF ~HasAction(name) THEN [error |-> "KeyError", command |-> ""]
         ELSE [error |-> "", command |-> ActionValue(name)]

-----------------------------------------------------------------------------
(* Helpers over sequences.                                                 *)

RECURSIVE SeqToBag(_)
SeqToBag(s) ==
    IF s = <<>> THEN EmptyBag ELSE SetToBag({Head(s)}) (+) SeqToBag(Tail(s))

Live == phase \in {"running", "quitting"}

Outcome(op, result, again) ==
    [op |-> op, result |-> result, again |-> again]

-----------------------------------------------------------------------------
(* sys.excepthook as main() installs it: an exception that leaves a        *)
(* callback is logged, Gtk.main_quit() is called and success is cleared.   *)

(* A variant of the hook that logs the exception and lets the loop run.    *)
exception_hook_logging_only ==
    UNCHANGED <<phase, success>>

unhandled_exception_hook ==
    /\ phase' = "quitting"
    /\ success' = FALSE

NoException ==
    UNCHANGED <<phase, success>>

-----------------------------------------------------------------------------
(* A variant of AppStop that clears the handle without removing the source.*)
AppStopKeepingSource ==
    [monitors |-> <<>>,
     watching |-> watching (-) SeqToBag(monitors),
     timer    |-> None,
     source   |-> source]

(* App.stop: cancel every monitor, clear the list, remove the timeout      *)
(* source and clear the handle.  The state it leaves, as a record.         *)

AppStop ==
    [monitors |-> <<>>,
     watching |-> watching (-) SeqToBag(monitors),
     timer    |-> None,
     source   |-> IF timer # None THEN NoSource ELSE source]

(* A variant of StartFrom: start() without the call to stop().             *)
StartFromCurrent ==
    [monitors |-> monitors, watching |-> watching, timer |-> timer,
     source |-> source]

(* The call self.stop() that opens App.start.                              *)
StartFrom == AppStop

(* The monitors App.start opens: one on the 'new' directory of every       *)
(* maildir iter_maildirs yields that is not ignored, in that order.        *)
RECURSIVE Watched(_)
Watched(maildirs) ==
    IF maildirs = <<>> THEN <<>>
    ELSE (IF maildir_is_ignored(Head(maildirs))
             THEN <<>> ELSE <<join(Head(maildirs), "new")>>)
             \o Watched(Tail(maildirs))

Opened == Watched(iter_maildirs(Root))

AppStart ==
    LET s == StartFrom
    IN  [monitors |-> s.monitors \o Opened,
         watching |-> s.watching (+) SeqToBag(Opened),
         timer    |-> s.timer,
         source   |-> s.source]

Apply(s) ==
    /\ monitors' = s.monitors
    /\ watching' = s.watching
    /\ timer' = s.timer
    /\ source' = s.source

(* stop() and start() called by the embedding code while the loop runs.    *)
stop ==
    /\ phase = "running"
    /\ Apply(AppStop)
    /\ last' = Outcome("stop", "", last.op = "stop")
    /\ UNCHANGED <<queue, notifications, phase, success, exitcode, batches,
                   shown, launched, arrivals, since, config, server_caps>>

start ==
    /\ phase = "running"
    /\ Apply(AppStart)
    /\ last' = Outcome("start", "", last.op = "start")
    /\ UNCHANGED <<queue, notifications, phase, success, exitcode, batches,
                   shown, launched, arrivals, since, config, server_caps>>

-----------------------------------------------------------------------------
(* App._handle_file_event.                                                 *)

Kinds == {"CREATED", "MOVED_IN", "CHANGED", "DELETED"}

(* What open() and the parser give for the event's file: a message, or the *)
(* exception raised (the message field is then not looked at).             *)
Reads ==
    { [status |-> "ok", message |-> m] : m \in Msgs }
        \cup { [status |-> e, message |-> MsgA] :
                   e \in {"FileNotFoundError", "OSError"} }

(* A variant of is_actionable that also acts on CHANGED.                   *)
is_actionable_or_changed(kind) == kind \in {"CREATED", "MOVED_IN", "CHANGED"}

(* event_type in (CREATED, MOVED_IN)                                       *)
is_actionable(kind) == kind \in {"CREATED", "MOVED_IN"}

(* Variants of read_message: one that starts the list afresh with the new  *)
(* message, one that falls through to the timer after FileNotFoundError.   *)
read_message_replacing(status, message) ==
    IF status = "ok"
    THEN [queue   |-> <<[id |-> arrivals + 1, message |-> message]>>,
          proceed |-> TRUE, raised |-> FALSE, result |-> "queued"]
    ELSE [queue |-> queue, proceed |-> FALSE,
          raised |-> status # "FileNotFoundError",
          result |-> IF status = "FileNotFoundError"
                        THEN "notfound" ELSE "error"]

read_message_falling_through(status, message) ==
    IF status = "ok"
    THEN [queue   |-> Append(queue, [id |-> arrivals + 1, message |-> message]),
          proceed |-> TRUE, raised |-> FALSE, result |-> "queued"]
    ELSE IF status = "FileNotFoundError"
    THEN [queue |-> queue, proceed |-> TRUE, raised |-> FALSE,
          result |-> "notfound"]
    ELSE [queue |-> queue, proceed |-> FALSE, raised |-> TRUE,
          result |-> "error"]

(* A variant of read_message that goes on to the timer without appending   *)
(* the message it parsed.                                                  *)
read_message_not_appending(status, message) ==
    IF status = "ok"
    THEN [queue |-> queue, proceed |-> TRUE, raised |-> FALSE,
          result |-> "queued"]
    ELSE IF status = "FileNotFoundError"
    THEN [queue |-> queue, proceed |-> FALSE, raised |-> FALSE,
          result |-> "notfound"]
    ELSE [queue |-> queue, proceed |-> FALSE, raised |-> TRUE,
          result |-> "error"]

(* The try block: the parsed message is appended; FileNotFoundError is     *)
(* logged and the handler returns; any other exception leaves the handler. *)
read_message(status, message) ==
    IF status = "ok"
    THEN [queue   |-> Append(queue, [id |-> arrivals + 1, message |-> message]),
          proceed |-> TRUE,
          raised  |-> FALSE,
          result  |-> "queued"]
    ELSE IF status = "FileNotFoundError"
    THEN [queue |-> queue, proceed |-> FALSE, raised |-> FALSE,
          result |-> "notfound"]
    ELSE [queue |-> queue, proceed |-> FALSE, raised |-> TRUE,
          result |-> "error"]

(* A variant of rearm that leaves a running source alone.                  *)
rearm_only_when_idle ==
    [timer  |-> TimerId,
     source |-> IF timer # None THEN source ELSE Window]

(* The timer after the try block: a running source is removed, a new one   *)
(* is added with the full window.                                          *)
rearm == [timer |-> TimerId, source |-> Window]

handle_file_event(kind, read) ==
    /\ Live
    /\ watching # EmptyBag
    /\ IF ~is_actionable(kind)
       THEN /\ last' = Outcome("file_event", "ignored", FALSE)
            /\ UNCHANGED <<queue, timer, source, arrivals, since>>
            /\ NoException
       ELSE LET r == read_message(read.status, read.message)
                ok == read.status = "ok"
            IN  /\ ok => arrivals < MaxArrivals
                /\ queue' = r.queue
                /\ arrivals' = IF ok THEN arrivals + 1 ELSE arrivals
                /\ since' = IF ok THEN 0 ELSE since
                /\ IF r.proceed
                   THEN timer' = rearm.timer /\ source' = rearm.source
                   ELSE UNCHANGED <<timer, source>>
                /\ IF r.raised THEN unhandled_exception_hook ELSE NoException
                /\ last' = Outcome("file_event", r.result, FALSE)
    /\ UNCHANGED <<notifications, monitors, watching, exitcode, batches,
                   shown, launched, config, server_caps>>

-----------------------------------------------------------------------------
(* App._handle_messages and App._show_notification.                        *)

(* {hash_message(m): m for m in self._queue}.values(): a key keeps the     *)
(* position of its first insertion and the value of its last.              *)
dict_put(d, k, v) ==
    IF \E i \in 1..Len(d) : d[i].key = k
    THEN [i \in 1..Len(d) |->
             IF d[i].key = k THEN [key |-> k, value |-> v] ELSE d[i]]
    ELSE Append(d, [key |-> k, value |-> v])

RECURSIVE dict_of(_, _)
dict_of(q, d) ==
    IF q = <<>> THEN d
    ELSE dict_of(Tail(q), dict_put(d, hash_message(Head(q).message), Head(q)))

(* A variant of unique_messages that keeps every message.                  *)
all_messages(q) == q

unique_messages(q) ==
    LET d == dict_of(q, <<>>)
    IN  [i \in 1..Len(d) |-> d[i].value]

Ids(messages) == [i \in 1..Len(messages) |-> messages[i].id]

(* html.escape(None) raises: with body markup, a message without Subject   *)
(* or From makes _show_notification raise before the notification exists.  *)
escape_raises(messages, caps) ==
    /\ "body-markup" \in caps
    /\ \E i \in 1..Len(messages) :
           \/ IsNone(messages[i].message, "Subject")
           \/ IsNone(messages[i].message, "From")

new_notification(id, messages, caps) ==
    [id      |-> id,
     count   |-> Len(messages),
     noun    |-> IF Len(messages) # 1 THEN "messages" ELSE "message",
     body    |-> [i \in 1..Len(messages) |->
                    [subject |-> messages[i].message.Subject,
                     sender  |-> messages[i].message.From]],
     markup  |-> "body-markup" \in caps,
     actions |-> IF "actions" \in caps THEN DOMAIN config.actions ELSE {}]

(* _show_notification(messages): what it leaves in _notifications and on   *)
(* the server, and whether it raised.  showOk is the outcome of show().    *)
show_notification(messages, showOk) ==
    LET caps == server_caps
        n == new_notification(Len(batches) + 1, messages, caps)
    IN  IF escape_raises(messages, caps)
        THEN [notifications |-> notifications, shown |-> shown,
              raised |-> TRUE]
        ELSE [notifications |-> Append(notifications, n),
              shown  |-> IF showOk THEN shown \cup {n.id} ELSE shown,
              raised |-> ~showOk]

handle_messages(showOk) ==
    /\ Live
    /\ source = 0
    /\ IF queue = <<>>
       THEN \* return True: the source stays attached and runs again
            /\ source' = Window
            /\ last' = Outcome("flush", "empty", FALSE)
            /\ UNCHANGED <<queue, notifications, timer, batches, shown>>
            /\ NoException
       ELSE LET messages == unique_messages(queue)
                d == show_notification(messages, showOk)
            IN  /\ queue' = <<>>
                /\ batches' = Append(batches, Ids(messages))
                /\ notifications' = d.notifications
                /\ shown' = d.shown
                /\ source' = NoSource
                /\ IF d.raised
                   THEN /\ UNCHANGED timer
                        /\ unhandled_exception_hook
                        /\ last' = Outcome("flush", "error", FALSE)
                   ELSE /\ timer' = None
                        /\ NoException
                        /\ last' = Outcome("flush", "shown", FALSE)
    /\ UNCHANGED <<monitors, watching, exitcode, launched, arrivals, since,
                   config, server_caps>>

(* App._on_notification_closed: the server reports a shown notification    *)
(* closed; list.remove takes it out of _notifications.                     *)
RECURSIVE remove(_, _)
remove(list, id) ==
    IF list = <<>> THEN <<>>
    ELSE IF Head(list).id = id THEN Tail(list)
    ELSE <<Head(list)>> \o remove(Tail(list), id)

on_notification_closed(id) ==
    /\ Live
    /\ id \in shown
    /\ shown' = shown \ {id}
    /\ IF \E i \in 1..Len(notifications) : notifications[i].id = id
       THEN /\ notifications' = remove(notifications, id)
            /\ NoException
            /\ last' = Outcome("closed", "removed", FALSE)
       ELSE /\ UNCHANGED notifications
            /\ unhandled_exception_hook
            /\ last' = Outcome("closed", "error", FALSE)
    /\ UNCHANGED <<queue, monitors, timer, source, watching, exitcode,
                   batches, launched, arrivals, since, config, server_caps>>

-----------------------------------------------------------------------------
(* The action callback of a shown notification: invoke_action resolves the *)
(* command and spawns it.  The server names the action; spawnOk is the     *)
(* outcome of spawn_command_line_async, which raises when it fails.        *)

action_invoked(name, spawnOk) ==
    LET r == invoke_action(name)
    IN  /\ Live
        /\ shown # {}
        /\ IF r.error # ""
           THEN /\ UNCHANGED launched
                /\ unhandled_exception_hook
                /\ last' = Outcome("action", r.error, FALSE)
           ELSE IF ~spawnOk
           THEN /\ UNCHANGED launched
                /\ unhandled_exception_hook
                /\ last' = Outcome("action", "SpawnError", FALSE)
           ELSE /\ Len(launched) < MaxClicks
                /\ launched' = Append(launched, r.command)
                /\ NoException
                /\ last' = Outcome("action", "launched", FALSE)
        /\ UNCHANGED <<queue, notifications, monitors, timer, source,
                       watching, exitcode, batches, shown, arrivals, since,
                       config, server_caps>>

-----------------------------------------------------------------------------
(* Time: Quantum seconds pass.  The timeout source counts down to 0, where *)
(* it is due; since saturates at the window.                               *)

Max(a, b) == IF a > b THEN a ELSE b
Min(a, b) == IF a < b THEN a ELSE b

tick ==
    /\ phase = "running"
    /\ source > 0 \/ since < Window
    /\ source' = IF source > 0 THEN Max(0, source - Quantum) ELSE source
    /\ since' = Min(Window, since + Quantum)
    /\ UNCHANGED <<queue, notifications, monitors, timer, watching, phase,
                   success, exitcode, batches, shown, launched, arrivals,
                   last, config, server_caps>>

-----------------------------------------------------------------------------
(* main(): Notify.init, app.start(), the loop, the finally block.          *)

main_start(initOk) ==
    /\ phase = "startup"
    /\ IF initOk
       THEN /\ Apply(AppStart)
            /\ phase' = "running"
            /\ UNCHANGED exitcode
            /\ last' = Outcome("main", "started", FALSE)
       ELSE /\ UNCHANGED <<monitors, watching, timer, source>>
            /\ phase' = "exited"
            /\ exitcode' = 1
            /\ last' = Outcome("main", "noinit", FALSE)
    /\ UNCHANGED <<queue, notifications, success, batches, shown, launched,
                   arrivals, since, config, server_caps>>

(* SIGINT: Gtk.main_quit.                                                  *)
interrupt ==
    /\ phase = "running"
    /\ phase' = "quitting"
    /\ last' = Outcome("sigint", "", FALSE)
    /\ UNCHANGED <<queue, notifications, monitors, timer, source, watching,
                   success, exitcode, batches, shown, launched, arrivals,
                   since, config, server_caps>>

(* Gtk.main() returns: app.stop(), Notify.uninit(), sys.exit.              *)
main_exit ==
    /\ phase = "quitting"
    /\ Apply(AppStop)
    /\ phase' = "exited"
    /\ exitcode' = IF success THEN 0 ELSE 1
    /\ last' = Outcome("exit", "", FALSE)
    /\ UNCHANGED <<queue, notifications, success, batches, shown, launched,
                   arrivals, since, config, server_caps>>

-----------------------------------------------------------------------------
Init ==
    /\ queue = <<>>
    /\ notifications = <<>>
    /\ monitors = <<>>
    /\ timer = None
    /\ source = NoSource
    /\ watching = EmptyBag
    /\ phase = "startup"
    /\ success = TRUE
    /\ exitcode = NoExit
    /\ batches = <<>>
    /\ shown = {}
    /\ launched = <<>>
    /\ arrivals = 0
    /\ since = Window
    /\ last = Outcome("init", "", FALSE)
    /\ \E e \in Environments : config = e.config /\ server_caps = e.caps

Next ==
    \/ \E initOk \in BOOLEAN : main_start(initOk)
    \/ start
    \/ stop
    \/ \E kind \in Kinds, read \in Reads : handle_file_event(kind, read)
    \/ \E showOk \in BOOLEAN : handle_messages(showOk)
    \/ \E id \in shown : on_notification_closed(id)
    \/ \E name \in ActionNames, spawnOk \in BOOLEAN :
           action_invoked(name, spawnOk)
    \/ tick
    \/ interrupt
    \/ main_exit

Spec == Init /\ [][Next]_vars

(* The loop dispatches a due timeout source, and time passes.              *)
FairSpec ==
    /\ Spec
    /\ WF_vars(tick)
    /\ WF_vars(\E showOk \in BOOLEAN : handle_messages(showOk))

-----------------------------------------------------------------------------
(* Vocabulary of the properties.                                           *)

Range(f) == {f[i] : i \in DOMAIN f}

Armed == source # NoSource

QueueIds == {queue[k].id : k \in DOMAIN queue}

Pending(i) == i \in QueueIds

Fingerprints(q) == {hash_message(q[k].message) : k \in DOMAIN q}

(* The position in q of the first message with fingerprint h.              *)
FirstSeen(q, h) ==
    CHOOSE k \in DOMAIN q :
        /\ hash_message(q[k].message) = h
        /\ \A j \in 1..(k - 1) : hash_message(q[j].message) # h

(* The message of q that came from file id.                                *)
MessageOf(q, id) == (CHOOSE k \in DOMAIN q : q[k].id = id)

Flushing == Len(batches') = Len(batches) + 1

NewBatch == batches'[Len(batches')]

FileEventStep(kinds, statuses) ==
    \E kind \in kinds, read \in Reads :
        read.status \in statuses /\ handle_file_event(kind, read)

FlushStep == \E showOk \in BOOLEAN : handle_messages(showOk)

-----------------------------------------------------------------------------
(* C1: between handlers, while the loop runs, the pending queue is         *)
(* non-empty exactly when one debounce timer is armed.                     *)
C1_QueueIffTimer ==
    phase = "running" => ((queue # <<>>) <=> (timer # None /\ Armed))

(* The parts of C2, for one step and for one state.                        *)
C2_LeavesOnlyInFlush ==
    \A k \in DOMAIN queue :
        queue[k] \notin Range(queue') =>
            /\ Flushing
            /\ \E j \in DOMAIN queue :
                   /\ queue[j].id \in Range(NewBatch)
                   /\ hash_message(queue[j].message)
                          = hash_message(queue[k].message)

C2_ReadIsQueued ==
    arrivals' = arrivals + 1 =>
        /\ Len(queue') = Len(queue) + 1
        /\ SubSeq(queue', 1, Len(queue)) = queue
        /\ queue'[Len(queue')].id = arrivals'

C2_BatchHasNoDuplicate ==
    Flushing =>
        /\ Range(NewBatch) \subseteq QueueIds
        /\ \A a, b \in DOMAIN NewBatch :
               a # b =>
                   hash_message(queue[MessageOf(queue, NewBatch[a])].message)
                       # hash_message(queue[MessageOf(queue, NewBatch[b])].message)

C2_BatchesDisjoint ==
    \A a, b \in DOMAIN batches :
        a # b => Range(batches[a]) \cap Range(batches[b]) = {}

(* C2: no message is lost or delivered twice.  A message leaves the queue  *)
(* only in a flush whose batch holds it or a message of the same flush     *)
(* with its fingerprint; a file that was read is in the queue afterwards,  *)
(* behind the messages already there; no file is in two batches; no batch  *)
(* holds two messages with one fingerprint.                                *)
C2_NoLossNoDoubleDelivery ==
    /\ [][C2_LeavesOnlyInFlush /\ C2_ReadIsQueued /\ C2_BatchHasNoDuplicate]_vars
    /\ []C2_BatchesDisjoint

(* A second flush has delivered a message that was read after the first,   *)
(* and a third message is pending.                                         *)
C2_Witness ==
    /\ Len(batches) = 2
    /\ batches[1] # <<>> /\ batches[2] # <<>>
    /\ queue # <<>>

(* C3: every successful enqueue restarts the window, and a flush happens   *)
(* only when a full window has passed since the most recent enqueue; the   *)
(* flush then takes the whole queue.                                       *)
C3_Debounce ==
    [][ /\ arrivals' = arrivals + 1 => (source' = Window /\ timer' # None)
        /\ Flushing =>
               /\ since >= Window
               /\ queue' = <<>>
               /\ Fingerprints(queue) =
                      {hash_message(queue[MessageOf(queue, id)].message) :
                          id \in Range(NewBatch)} ]_vars

(* Three files arrived inside one window and left in one flush.            *)
C3_Witness ==
    /\ arrivals = 3
    /\ Len(batches) = 1
    /\ queue = <<>>
    /\ last.op = "flush"

(* C4: the batch of a flush, and the count of its notification, has one    *)
(* entry for every fingerprint of the queue, in the order in which the     *)
(* fingerprints first arrived.                                             *)
C4_OnePerFingerprint ==
    [][ Flushing =>
          LET fp(i) == hash_message(queue[MessageOf(queue, NewBatch[i])].message)
          IN  /\ Len(NewBatch) = Cardinality(Fingerprints(queue))
              /\ {fp(i) : i \in DOMAIN NewBatch} = Fingerprints(queue)
              /\ \A a, b \in DOMAIN NewBatch :
                     a < b => FirstSeen(queue, fp(a)) < FirstSeen(queue, fp(b))
              /\ Len(notifications') = Len(notifications) + 1 =>
                     notifications'[Len(notifications')].count
                         = Cardinality(Fingerprints(queue)) ]_vars

(* Two files with the same tracked headers arrived and gave one            *)
(* notification, of one message.                                           *)
C4_Witness ==
    /\ arrivals = 2
    /\ Len(batches) = 1
    /\ Len(notifications) = 1
    /\ notifications[1].count = 1
    /\ notifications[1].noun = "message"

(* C5: a message that is pending leaves the queue in the end (by C2, in a  *)
(* flush that delivers it), as long as the loop keeps running; stop() and  *)
(* start() may run meanwhile.                                              *)
C5_PendingIsDelivered ==
    \A i \in 1..MaxArrivals :
        Pending(i) ~> (~Pending(i) \/ phase # "running")

(* The App holds no session: no monitor in its list, no timer handle.      *)
Stopped == monitors = <<>> /\ timer = None

C6_AfterStop ==
    last.op = "stop" =>
        /\ monitors = <<>>
        /\ watching = EmptyBag
        /\ timer = None
        /\ ~Armed

(* C6: when stop() has returned there is no monitor, in the list or live,  *)
(* and no timer, in the handle or attached; while the application is       *)
(* stopped no file-event or timer callback runs; stop() on a stopped       *)
(* application changes nothing.                                            *)
C6_StopCancels ==
    /\ []C6_AfterStop
    /\ [][ /\ Stopped =>
               ~(FileEventStep(Kinds, {"ok", "FileNotFoundError", "OSError"})
                    \/ FlushStep)
           /\ (Stopped /\ stop) => UNCHANGED <<appvars, batches, shown>> ]_vars

(* stop() ran twice in a row while a message was pending.                  *)
C6_Witness ==
    /\ last.op = "stop"
    /\ last.again
    /\ queue # <<>>

(* The new directories start() is to watch, taken from the tree as a set.  *)
IsMaildir(p) ==
    /\ p \in Dirs
    /\ exists(join(p, "new")) /\ exists(join(p, "tmp"))
    /\ exists(join(p, "cur"))

Matches(p) ==
    \E i \in DOMAIN split(config.ignore) :
        fnmatch(PathString(p), split(config.ignore)[i])

ExpectedWatches ==
    {join(p, "new") : p \in {d \in Dirs : IsMaildir(d) /\ ~Matches(d)}}

(* C7: after start(), the first or a repeated one, the live monitors are   *)
(* one on the new directory of every maildir found and not ignored, and    *)
(* they are the monitors of the list.                                      *)
C7_StartIdempotent ==
    last.op = "start" =>
        /\ watching = SetToBag(ExpectedWatches)
        /\ SeqToBag(monitors) = watching
        /\ Len(monitors) = Cardinality(ExpectedWatches)

(* start() ran twice in a row and monitors are live.                       *)
C7_Witness ==
    /\ last.op = "start"
    /\ last.again
    /\ watching # EmptyBag

(* C8: an event of a kind other than CREATED and MOVED_IN changes neither  *)
(* the queue, the timer, the monitors nor the notifications.               *)
C8_OtherKindsIgnored ==
    [][ FileEventStep(Kinds \ {"CREATED", "MOVED_IN"},
                      {"ok", "FileNotFoundError", "OSError"})
          => UNCHANGED <<appvars, shown, batches, arrivals, phase>> ]_vars

(* An event was ignored while a message was pending, inside its window.    *)
C8_Witness ==
    /\ last.op = "file_event"
    /\ last.result = "ignored"
    /\ queue # <<>>
    /\ source > 0 /\ source < Window

(* C9: a CREATED or MOVED_IN event whose file is gone when it is read      *)
(* appends nothing, leaves the timer as it is and lets the loop run on.    *)
C9_MissingFileDropped ==
    [][ FileEventStep({"CREATED", "MOVED_IN"}, {"FileNotFoundError"})
          => UNCHANGED <<appvars, shown, batches, arrivals, since, phase,
                         success, exitcode>> ]_vars

(* A missing file was reported while a message was pending, inside its     *)
(* window.                                                                 *)
C9_Witness ==
    /\ last.op = "file_event"
    /\ last.result = "notfound"
    /\ phase = "running"
    /\ queue # <<>>
    /\ source > 0 /\ source < Window

(* The action table read as a plain map.                                   *)
Defined(name) == Lower(name) \in DOMAIN config.actions

CommandOf(name) == config.actions[Lower(name)]

(* C10: invoking default launches the command line of the action the       *)
(* default entry names, invoking another defined name launches that        *)
(* name's command line, and invoking a name the table lacks fails with     *)
(* the lookup's error, launches nothing and leaves the App as it is.       *)
C10_Invoke ==
    [][ \A name \in ActionNames :
          action_invoked(name, TRUE) =>
              IF name = "default" /\ Defined("default")
                    /\ Defined(CommandOf("default"))
              THEN launched' = Append(launched, CommandOf(CommandOf("default")))
              ELSE IF name # "default" /\ Defined(name)
              THEN launched' = Append(launched, CommandOf(name))
              ELSE /\ launched' = launched
                   /\ last'.result = "KeyError"
                   /\ UNCHANGED <<appvars, batches, shown, arrivals>> ]_vars

(* The default action launched the command of the action it names, and a   *)
(* later invocation of a name the table lacks failed.                      *)
C10_Witness ==
    /\ config = ConfigShow
    /\ launched = <<"emacs -f mu4e">>
    /\ last.op = "action"
    /\ last.result = "KeyError"

-----------------------------------------------------------------------------
(* A click on an action whose invocation fails: the name is not in the     *)
(* table, or the command could not be launched.                            *)
FailedActionStep ==
    /\ \E name \in ActionNames, spawnOk \in BOOLEAN :
           action_invoked(name, spawnOk)
    /\ last'.result \in {"KeyError", "SpawnError"}

(* C11: a failed action invocation is isolated.  It is not fatal (the loop *)
(* keeps running and the exit status is not turned into a failure) and the *)
(* watch session (monitors, pending queue, timer) is unchanged.            *)
C11_FailedActionIsolated ==
    [][(phase = "running" /\ FailedActionStep) =>
           /\ phase' = "running"
           /\ success' = success
           /\ UNCHANGED <<monitors, watching, queue, timer, source>>]_vars

-----------------------------------------------------------------------------
(* A directory with new, tmp and cur as subdirectories directly beneath.   *)
HasThreeSubdirectories(p) ==
    /\ p \in Dirs
    /\ isdir(join(p, "new")) /\ isdir(join(p, "tmp")) /\ isdir(join(p, "cur"))

QualifyingWatches ==
    {join(p, "new") :
        p \in {d \in Dirs : HasThreeSubdirectories(d) /\ ~Matches(d)}}

(* C12: the maildirs watched after start() are exactly the directories at  *)
(* or below the root with new, tmp and cur as subdirectories, minus those  *)
(* whose path matches an ignore pattern (a tree where new is a regular     *)
(* file included).                                                         *)
C12_WatchedAreTheMaildirs ==
    last.op \in {"start", "main"} /\ phase = "running" =>
        Range(monitors) = QualifyingWatches

-----------------------------------------------------------------------------
(* The file whose message arrived first among those of queue q that share  *)
(* the fingerprint of the message of file id.                              *)
FirstArrival(q, id) ==
    q[FirstSeen(q, hash_message(q[MessageOf(q, id)].message))].id

(* C13: of the pending messages that share a fingerprint, the one kept in  *)
(* the flushed batch is the first that arrived, and the kept messages are  *)
(* in the order of those first arrivals.                                   *)
C13_FirstArrivalKept ==
    [][Flushing =>
           /\ \A a \in DOMAIN NewBatch :
                  NewBatch[a] = FirstArrival(queue, NewBatch[a])
           /\ \A a, b \in DOMAIN NewBatch : a < b => NewBatch[a] < NewBatch[b]]_vars

-----------------------------------------------------------------------------
(* _handle_messages as a callback on its own: the timeout source of        *)
(* self._timer is attached and due or still counting, and self._queue is   *)
(* any list of at most two messages, the empty one included (the case of   *)
(* the handler's first branch).  The loop runs and the monitors are open.  *)
PendingLists ==
    {<<>>}
        \cup {<<[id |-> 1, message |-> m]>> : m \in Msgs}
        \cup {<<[id |-> 1, message |-> m], [id |-> 2, message |-> n]>> :
                  m \in Msgs, n \in Msgs}

HandlerInit ==
    /\ \E e \in Environments : config = e.config /\ server_caps = e.caps
    /\ queue \in PendingLists
    /\ arrivals = Len(queue)
    /\ timer = TimerId
    /\ source \in {0, Window}
    /\ monitors = Opened
    /\ watching = SeqToBag(Opened)
    /\ notifications = <<>>
    /\ phase = "running"
    /\ success = TRUE
    /\ exitcode = NoExit
    /\ batches = <<>>
    /\ shown = {}
    /\ launched = <<>>
    /\ since = Window
    /\ last = Outcome("init", "", FALSE)

HandlerNext ==
    \/ \E showOk \in BOOLEAN : handle_messages(showOk)
    \/ tick

HandlerSpec == HandlerInit /\ [][HandlerNext]_vars

(* The timer fires while the pending list is empty.                        *)
EmptyFire == FlushStep /\ queue = <<>>

-----------------------------------------------------------------------------
(* An [actions] section whose default entry names itself, and the program  *)
(* run from main() under the configurations whose default entry does not   *)
(* name another action of the section.                                     *)
ConfigSelf ==
    [ignore  |-> <<>>,
     actions |-> [n \in {"default", "open"} |->
                     IF n = "default" THEN "default" ELSE "xdg-open mail"]]

BadDefaultEnvironments ==
    { [config |-> ConfigSelf, caps |-> {"actions"}],
      [config |-> ConfigGone, caps |-> {"actions"}] }

BadDefaultInit ==
    /\ queue = <<>>
    /\ notifications = <<>>
    /\ monitors = <<>>
    /\ timer = None
    /\ source = NoSource
    /\ watching = EmptyBag
    /\ phase = "startup"
    /\ success = TRUE
    /\ exitcode = NoExit
    /\ batches = <<>>
    /\ shown = {}
    /\ launched = <<>>
    /\ arrivals = 0
    /\ since = Window
    /\ last = Outcome("init", "", FALSE)
    /\ \E e \in BadDefaultEnvironments :
           config = e.config /\ server_caps = e.caps

BadDefaultSpec == BadDefaultInit /\ [][Next]_vars

(* The default entry names no other action: its value is not an option of  *)
(* the section, or is the option default itself.                           *)
BadDefault ==
    /\ HasAction("default")
    /\ \/ ~HasAction(ActionValue("default"))
       \/ Lower(ActionValue("default")) = "default"

(* C15: with a default entry that names a nonexistent action or itself,    *)
(* invoking the default action fails with the configuration error and      *)
(* launches no command: the value of the entry is not run as a program.    *)
C15_BadDefaultFails ==
    [][(BadDefault /\ \E spawnOk \in BOOLEAN : action_invoked("default", spawnOk))
           => /\ launched' = launched
              /\ last'.result = "KeyError"]_vars

-----------------------------------------------------------------------------
(* Gtk.main() returns once Gtk.main_quit() was called: the finally block   *)
(* and sys.exit are reached.                                               *)
LoopSpec == Spec /\ WF_vars(main_exit)

(* The last callback raised: the exception left it for sys.excepthook.     *)
Raised ==
    /\ last.op \in {"file_event", "flush", "closed", "action"}
    /\ last.result \in {"error", "KeyError", "SpawnError"}

(* main() is over after the finally block: stop() has cancelled the        *)
(* monitors and the timer, Notify.uninit() has released the server (the    *)
(* process holds it from Notify.init to the exit step), and the exit       *)
(* status is code.                                                         *)
GracefulExit(code) ==
    /\ phase = "exited"
    /\ last.op = "exit"
    /\ monitors = <<>> /\ watching = EmptyBag
    /\ timer = None /\ ~Armed
    /\ exitcode = code

(* C16: an exception that leaves a loop callback always leads to a         *)
(* graceful shutdown with a non-zero exit status; an interrupt with no     *)
(* such exception leads to the same teardown with exit status 0.  In       *)
(* parts: the exception makes the loop quit and marks the run failed for   *)
(* good; a loop that quits always reaches the exit; and at the exit        *)
(* stop() and Notify.uninit() have run and the status is 0 exactly when no *)
(* exception was raised.                                                   *)
C16_GracefulShutdown ==
    /\ [](Raised => phase = "quitting" /\ ~success)
    /\ [](last.op = "sigint" => phase = "quitting")
    /\ [][~success => ~success']_vars
    /\ (phase = "quitting") ~> (phase = "exited")
    /\ [](phase = "exited" /\ last.op = "exit" =>
              GracefulExit(IF success THEN 0 ELSE 1))

(* The shutdown after an exception in a callback, after a flush.           *)
C16_Witness ==
    /\ GracefulExit(1)
    /\ ~success
    /\ batches # <<>>

-----------------------------------------------------------------------------
(* The handles in App._notifications.                                      *)
Handles == {notifications[i].id : i \in DOMAIN notifications}

(* C17: the live-notification collection holds exactly the notifications   *)
(* that were shown and not yet reported closed, each once; a flush of a    *)
(* non-empty queue adds exactly one handle, and a close signal removes the *)
(* handle it names and no other.                                           *)
C17_LiveNotifications ==
    /\ [](Handles = shown /\ Len(notifications) = Cardinality(shown))
    /\ [][(FlushStep /\ queue # <<>>) =>
              /\ Len(notifications') = Len(notifications) + 1
              /\ SubSeq(notifications', 1, Len(notifications)) = notifications]_vars
    /\ [][\A id \in shown :
              on_notification_closed(id) =>
                  /\ Handles' = Handles \ {id}
                  /\ Len(notifications') = Len(notifications) - 1]_vars

-----------------------------------------------------------------------------
(* The scan of iter_maildirs while another process removes the directory   *)
(* gone, with all beneath it, at one point of the scan:                    *)
(*   "listed"   after os.listdir of its parent returned its name and       *)
(*              before os.path.isdir is asked about it;                    *)
(*   "tested"   after os.path.isdir and before iter_maildirs(gone) looks   *)
(*              for new, tmp and cur;                                      *)
(*   "checked"  after that look and before os.listdir(gone);               *)
(*   "none"     not while the scan runs.                                   *)
(* os.listdir of a directory that is gone raises FileNotFoundError, which  *)
(* nothing in iter_maildirs or App.start catches: the generators end, and  *)
(* what was yielded before has already been handled by the caller.         *)
Removable ==
    { <<"M", "Inbox">>, <<"M", "Inbox", "Sub">>, <<"M", "Spam">>,
      <<"M", "Junk">>, <<"M", "notes">> }

Points == {"none", "listed", "tested", "checked"}

Yielded(maildirs, raised) == [maildirs |-> maildirs, raised |-> raised]

RECURSIVE iter_maildirs_racing(_, _, _)
RECURSIVE scan_entries_racing(_, _, _, _, _)

scan_entries_racing(directory, listing, i, gone, point) ==
    IF i > Len(listing) THEN Yielded(<<>>, FALSE)
    ELSE LET subdirpath == join(directory, listing[i])
             seen == isdir(subdirpath)
                         /\ ~(subdirpath = gone /\ point = "listed")
             r == IF seen THEN iter_maildirs_racing(subdirpath, gone, point)
                          ELSE Yielded(<<>>, FALSE)
         IN  IF r.raised THEN r
             ELSE LET rest == scan_entries_racing(directory, listing, i + 1,
                                                  gone, point)
                  IN  Yielded(r.maildirs \o rest.maildirs, rest.raised)

iter_maildirs_racing(directory, gone, point) ==
    LET newdir == join(directory, "new")
        tmpdir == join(directory, "tmp")
        curdir == join(directory, "cur")
        vanished == directory = gone /\ point = "tested"
        found == IF ~vanished /\ exists(newdir) /\ exists(tmpdir)
                        /\ exists(curdir)
                    THEN <<directory>> ELSE <<>>
    IN  IF directory = gone /\ point \in {"tested", "checked"}
        THEN Yielded(found, TRUE)
        ELSE LET r == scan_entries_racing(directory, Listing(directory), 1,
                                          gone, point)
             IN  Yielded(found \o r.maildirs, r.raised)

(* main() up to the loop, Notify.init having succeeded: App(), then        *)
(* app.start() over a tree that changes under the scan.  An exception of   *)
(* start() is outside main's try block: it ends the process with a         *)
(* traceback and status 1; the monitors opened before it are those of the  *)
(* maildirs yielded so far.                                                *)
main_start_racing(gone, point) ==
    LET r == iter_maildirs_racing(Root, gone, point)
        opened == Watched(r.maildirs)
        s == StartFrom
    IN  /\ phase = "startup"
        /\ monitors' = s.monitors \o opened
        /\ watching' = s.watching (+) SeqToBag(opened)
        /\ timer' = s.timer
        /\ source' = s.source
        /\ IF r.raised
           THEN /\ phase' = "exited"
                /\ exitcode' = 1
                /\ last' = Outcome("main", "error", FALSE)
           ELSE /\ phase' = "running"
                /\ UNCHANGED exitcode
                /\ last' = Outcome("main", "started", FALSE)
        /\ UNCHANGED <<queue, notifications, success, batches, shown,
                       launched, arrivals, since, config, server_caps>>

ScanNext ==
    \/ \E gone \in Removable, point \in Points :
           main_start_racing(gone, point)
    \/ \E kind \in Kinds, read \in Reads : handle_file_event(kind, read)
    \/ \E showOk \in BOOLEAN : handle_messages(showOk)
    \/ tick
    \/ interrupt
    \/ main_exit

ScanSpec == Init /\ [][ScanNext]_vars

(* p is directory g or lies beneath it.                                    *)
Under(p, g) == Len(p) >= Len(g) /\ SubSeq(p, 1, Len(g)) = g

(* C18: when a subdirectory is removed while the scan is in progress, the  *)
(* scan skips it and completes: start() does not fail, and every maildir   *)
(* outside the removed directory is watched.                               *)
C18_RemovedDirectorySkipped ==
    [][\A gone \in Removable, point \in Points \ {"none"} :
           main_start_racing(gone, point) =>
               /\ phase' = "running"
               /\ {m \in Range(monitors') : ~Under(m, gone)}
                      = {m \in ExpectedWatches : ~Under(m, gone)}]_vars

-----------------------------------------------------------------------------
TrackedHeaders == {"Date", "From", "MessageId", "Subject", "To"}

(* The five tracked values agree field by field, absent counting as ''.     *)
TrackedEqual(m, n) == \A h \in TrackedHeaders : Get(m, h) = Get(n, h)

(* C19: two messages have the same fingerprint if and only if their Date,  *)
(* From, Message-Id, Subject and To values are equal field by field, so    *)
(* pending messages that differ in a tracked field are not merged by the   *)
(* flush.                                                                  *)
C19_FieldwiseCriterion ==
    /\ [](\A i, j \in DOMAIN queue :
              hash_message(queue[i].message) = hash_message(queue[j].message)
                  <=> TrackedEqual(queue[i].message, queue[j].message))
    /\ [][Flushing =>
              \A k \in DOMAIN queue :
                  \E a \in DOMAIN NewBatch :
                      TrackedEqual(queue[k].message,
                                   queue[MessageOf(queue, NewBatch[a])].message)]_vars

-----------------------------------------------------------------------------
(* C20: an armed timer implies a non-empty pending queue: whenever the     *)
(* timeout source is attached the queue holds a message, and as long as no *)
(* exception was raised the same goes for the handle self._timer; so the   *)
(* timer handler is never entered with an empty queue and its empty-queue  *)
(* branch is never taken.                                                  *)
C20_ArmedImpliesPending ==
    /\ [](Armed => queue # <<>>)
    /\ [](success /\ timer # None => queue # <<>>)
    /\ [][FlushStep => queue # <<>> /\ last'.result # "empty"]_vars

(* The timer is due with messages pending, after an earlier flush.         *)
C20_Witness ==
    /\ phase = "running"
    /\ success
    /\ source = 0
    /\ timer # None
    /\ queue # <<>>
    /\ batches # <<>>

=============================================================================
